---- MODULE Spec2Model ----
(***************************************************************************)
(* Model of the keyword-search fallback of the France Travail service      *)
(* (backend/app/services/france_travail_service.py), of the job-offer      *)
(* indexer (indexer/index_documents.py), of the /query and /search         *)
(* handlers (backend/app/main.py), of the CV matching                      *)
(* (backend/app/services/cv_service.py) and of the text chunker.           *)
(*                                                                         *)
(* Python strings are modelled as sequences of one-character strings, so   *)
(* that strip, split, join and slicing are computed, not assumed.          *)
(***************************************************************************)
EXTENDS Integers, Sequences, FiniteSets, TLC

VARIABLES
    \* ---- search_job_offers (france_travail_service.py) ----
    keywords_data,      \* argument: the dict produced by extract_keywords_from_cv
    max_results,        \* argument: number of offers asked for
    client_id_set,      \* FRANCE_TRAVAIL_CLIENT_ID is non-empty
    client_secret_set,  \* FRANCE_TRAVAIL_CLIENT_SECRET is non-empty
    pc,                 \* position of the call: "token", "plan", "loop", "done"
    token_posts,        \* outcome of each POST sent to the token URL, in order
    search_strategies,  \* the planned list of keyword strings
    idx,                \* 0-based index of the strategy the loop is at
    requests,           \* params of the GETs sent to the search URL, in order
    responses,          \* what each GET produced, in order
    result,             \* outcome of the call
    \* ---- indexer main (index_documents.py) ----
    ipc,                \* position of main
    attempt,            \* loop variable i of the readiness wait
    sleeps,             \* number of time.sleep(2) calls of the readiness wait
    collection,         \* the job_offers collection in the store
    calls,              \* calls made after the existence check, in order
    points_count,       \* value read from get_collection by this run (-1: none)
    initial_collection, \* the collection as it was when the run started
    offers,             \* what fetch_job_offers returned
    documents,          \* what process_job_offers returned
    doc_idx,            \* loop variable idx of index_documents
    points,             \* the batch being filled by index_documents
    exit_status,        \* process exit status (-1 while running)
    \* ---- two rebuilds in a row (create_collection + index_documents) ----
    rebuild_counts,     \* record count found after each completed rebuild
    \* ---- /query and /search handlers (backend/app/main.py) ----
    endpoint,           \* "query" or "search"
    top_k,              \* request.top_k
    client_ready,       \* the Qdrant client and embedding model are initialised
    store,              \* the vector store: reachable or not, and its hits
    qpc,                \* position of the handler
    store_outcome,      \* what query_points did: "none", "hits", "raised"
    search_results,     \* what search_similar_documents returned
    http_response,      \* what the handler answered
    \* ---- process_cv_for_job_matching (cv_service.py) ----
    cv_text_len,        \* len(cv_text.strip()) of the uploaded CV
    cv_top_k,           \* top_k of the /upload-cv request
    cpc,                \* position of process_cv_for_job_matching
    job_offers,         \* what search_job_offers returned
    fmt_idx,            \* loop variable idx of format_job_offers
    matching_offers,    \* format_job_offers: the formatted offers so far
    context_parts,      \* format_job_offers: the context entries so far
    prompt_context,     \* the entries joined into the generation prompt
    cv_result,          \* outcome of process_cv_for_job_matching
    \* ---- TextChunker ----
    input_text,         \* argument text
    chunk_size,         \* argument size
    chunk_overlap,      \* argument overlap
    kpc,                \* position of the chunker
    window,             \* index i of the next window
    chunks              \* the chunks emitted so far

search_vars == <<keywords_data, max_results, client_id_set, client_secret_set,
                 pc, token_posts, search_strategies, idx, requests, responses,
                 result>>

indexer_vars == <<ipc, attempt, sleeps, collection, calls, points_count,
                  initial_collection, offers, documents, doc_idx, points,
                  exit_status>>

rebuild_vars == <<rebuild_counts>>

retrieval_vars == <<endpoint, top_k, client_ready, store, qpc, store_outcome,
                    search_results, http_response>>

cv_vars == <<cv_text_len, cv_top_k, cpc, job_offers, fmt_idx, matching_offers,
             context_parts, prompt_context, cv_result>>

\* the variables of the other components
chunk_vars == <<input_text, chunk_size, chunk_overlap, kpc, window, chunks>>

aux_vars == <<rebuild_vars, retrieval_vars, cv_vars, chunk_vars>>

vars == <<search_vars, indexer_vars, aux_vars>>

----------------------------------------------------------------------------
(* Bounds of the model *)

LongWord == 20          \* length of the long words of the sample roles
LongSkill == 52         \* length of the long skills of the sample skill lists

----------------------------------------------------------------------------
(* Python string and list primitives *)

Min(a, b) == IF a <= b THEN a ELSE b

Rep(c, n) == [i \in 1..n |-> c]

\* characters that str.strip() and str.split() treat as whitespace
IsSpace(c) == c \in {" ", "\t", "\n"}

\* s[:n]
Slice(s, n) == SubSeq(s, 1, Min(n, Len(s)))

\* s[k:]
SliceFrom(s, k) == SubSeq(s, k + 1, Len(s))

\* index of the first non-whitespace character at or after i (Len(s)+1: none)
RECURSIVE SkipSpaces(_, _)
SkipSpaces(s, i) ==
    IF i > Len(s) THEN i
    ELSE IF IsSpace(s[i]) THEN SkipSpaces(s, i + 1) ELSE i

\* index of the first whitespace character at or after i (Len(s)+1: none)
RECURSIVE SkipWord(_, _)
SkipWord(s, i) ==
    IF i > Len(s) THEN i
    ELSE IF IsSpace(s[i]) THEN i ELSE SkipWord(s, i + 1)

\* index of the last non-whitespace character at or before i (0: none)
RECURSIVE SkipSpacesBack(_, _)
SkipSpacesBack(s, i) ==
    IF i < 1 THEN i
    ELSE IF IsSpace(s[i]) THEN SkipSpacesBack(s, i - 1) ELSE i

\* index of the first occurrence of c at or after i (Len(s)+1: none)
RECURSIVE FindChar(_, _, _)
FindChar(s, c, i) ==
    IF i > Len(s) THEN i
    ELSE IF s[i] = c THEN i ELSE FindChar(s, c, i + 1)

\* s.strip()
Strip(s) ==
    LET lo == SkipSpaces(s, 1)
    IN  IF lo > Len(s) THEN <<>>
        ELSE SubSeq(s, lo, SkipSpacesBack(s, Len(s)))

RECURSIVE SplitFrom(_, _, _)
SplitFrom(s, sep, i) ==
    LET k == FindChar(s, sep, i)
    IN  IF k > Len(s) THEN <<SubSeq(s, i, Len(s))>>
        ELSE <<SubSeq(s, i, k - 1)>> \o SplitFrom(s, sep, k + 1)

\* s.split(sep) for a one-character separator
SplitOn(s, sep) == SplitFrom(s, sep, 1)

RECURSIVE WordsFrom(_, _)
WordsFrom(s, i) ==
    LET lo == SkipSpaces(s, i)
    IN  IF lo > Len(s) THEN <<>>
        ELSE LET hi == SkipWord(s, lo)
             IN  <<SubSeq(s, lo, hi - 1)>> \o WordsFrom(s, hi)

\* s.split(): the maximal runs of non-whitespace characters
SplitWords(s) == WordsFrom(s, 1)

\* sep.join(parts)
RECURSIVE Join(_, _)
Join(sep, parts) ==
    IF Len(parts) = 0 THEN <<>>
    ELSE IF Len(parts) = 1 THEN parts[1]
    ELSE parts[1] \o sep \o Join(sep, Tail(parts))

\* [f(x) for x in parts] with f = strip
StripAll(parts) == [i \in 1..Len(parts) |-> Strip(parts[i])]

\* d.get(key, default)
DictGet(d, key, default) == IF key \in d.keys THEN d[key] ELSE default

----------------------------------------------------------------------------
(* search_job_offers: building the list of strategies *)

KeywordBudget == 50

\* variant: keeps the first 2 words only
SimpleMetier_TwoWords(metier) ==
    IF metier # <<>> THEN Join(<<" ">>, Slice(SplitWords(metier), 2)) ELSE <<>>

\* " ".join(metier.split()[:3]) if metier else ""
SimpleMetier(metier) ==
    IF metier # <<>> THEN Join(<<" ">>, Slice(SplitWords(metier), 3)) ELSE <<>>

\* [s.strip() for s in competences.split(',')] if competences else []
SkillsList(competences) ==
    IF competences # <<>> THEN StripAll(SplitOn(competences, ",")) ELSE <<>>

\* f"{simple_metier} {first_skills}"[:50]
Strategy1(simple_metier, skills_list) ==
    Slice(simple_metier \o <<" ">> \o Join(<<" ">>, Slice(skills_list, 2)),
          KeywordBudget)

\* variant: the remaining skills start at index 1
Strategy2_FromIndex1(skills_list) ==
    Slice(Join(<<" ">>, SliceFrom(skills_list, 1)), KeywordBudget)

\* " ".join(skills_list[2:])[:50]
Strategy2(skills_list) ==
    Slice(Join(<<" ">>, SliceFrom(skills_list, 2)), KeywordBudget)

\* variant: the final append of the empty string is missing
PlanStrategies_NoFallback(kd) ==
    LET metier == Strip(DictGet(kd, "metier", <<>>))
        competences == Strip(DictGet(kd, "competences", <<>>))
        skills_list == SkillsList(competences)
        simple_metier == SimpleMetier(metier)
        p1 == IF simple_metier # <<>> /\ skills_list # <<>>
              THEN <<Strategy1(simple_metier, skills_list)>> ELSE <<>>
        p2 == IF Len(skills_list) > 2
              THEN p1 \o <<Strategy2(skills_list)>> ELSE p1
        p3 == IF simple_metier # <<>> THEN p2 \o <<simple_metier>> ELSE p2
    IN  IF skills_list # <<>> THEN p3 \o <<skills_list[1]>> ELSE p3

\* the successive search_strategies.append(...) of the function
PlanStrategies(kd) ==
    LET metier == Strip(DictGet(kd, "metier", <<>>))
        competences == Strip(DictGet(kd, "competences", <<>>))
        skills_list == SkillsList(competences)
        simple_metier == SimpleMetier(metier)
        p1 == IF simple_metier # <<>> /\ skills_list # <<>>
              THEN <<Strategy1(simple_metier, skills_list)>> ELSE <<>>
        p2 == IF Len(skills_list) > 2
              THEN p1 \o <<Strategy2(skills_list)>> ELSE p1
        p3 == IF simple_metier # <<>> THEN p2 \o <<simple_metier>> ELSE p2
        p4 == IF skills_list # <<>> THEN p3 \o <<skills_list[1]>> ELSE p3
    IN  p4 \o << <<>> >>

----------------------------------------------------------------------------
(* search_job_offers: one request and the handling of its response *)

\* variant: the keyword is sent as planned, without the [:50]
RequestParams_NoCut(motsCles, mr) ==
    IF motsCles # <<>> /\ Len(motsCles) > 3
    THEN [range |-> <<0, mr - 1>>, sort |-> "1", motsCles |-> motsCles]
    ELSE [range |-> <<0, mr - 1>>, sort |-> "1"]

\* variant: a strategy of 3 characters is sent as a keyword too
RequestParams_ThreeKept(motsCles, mr) ==
    IF motsCles # <<>> /\ Len(motsCles) >= 3
    THEN [range |-> <<0, mr - 1>>, sort |-> "1",
          motsCles |-> Slice(motsCles, KeywordBudget)]
    ELSE [range |-> <<0, mr - 1>>, sort |-> "1"]

\* params of the GET for one strategy
RequestParams(motsCles, mr) ==
    IF motsCles # <<>> /\ Len(motsCles) > 3
    THEN [range |-> <<0, mr - 1>>, sort |-> "1",
          motsCles |-> Slice(motsCles, KeywordBudget)]
    ELSE [range |-> <<0, mr - 1>>, sort |-> "1"]

\* response.raise_for_status() raises
IsHttpError(status) == status >= 400 /\ status < 600

\* variant: offers found before the last strategy do not stop the loop
HandleResponse_NoEarlyStop(r, i, n) ==
    IF r.exc THEN "raise500"
    ELSE IF r.status = 204 THEN "continue"
    ELSE IF ~r.json_ct THEN (IF i < n - 1 THEN "continue" ELSE "raise502")
    ELSE IF IsHttpError(r.status) THEN "raise500"
    ELSE IF r.body.kind = "garbage"
         THEN (IF i < n - 1 THEN "continue" ELSE "raise502")
    ELSE IF r.body.kind # "object" THEN "raise500"
    ELSE IF r.body.resultats # <<>> /\ i = n - 1 THEN "return"
    ELSE "continue"

\* variant: a parsed body is returned even when it carries no offer
HandleResponse_StopOnEmpty(r, i, n) ==
    IF r.exc THEN "raise500"
    ELSE IF r.status = 204 THEN "continue"
    ELSE IF ~r.json_ct THEN (IF i < n - 1 THEN "continue" ELSE "raise502")
    ELSE IF IsHttpError(r.status) THEN "raise500"
    ELSE IF r.body.kind = "garbage"
         THEN (IF i < n - 1 THEN "continue" ELSE "raise502")
    ELSE IF r.body.kind # "object" THEN "raise500"
    ELSE "return"

\* variant: a malformed response is fatal whatever the strategy
HandleResponse_MalformedFatal(r, i, n) ==
    IF r.exc THEN "raise500"
    ELSE IF r.status = 204 THEN "continue"
    ELSE IF ~r.json_ct THEN "raise502"
    ELSE IF IsHttpError(r.status) THEN "raise500"
    ELSE IF r.body.kind = "garbage" THEN "raise502"
    ELSE IF r.body.kind # "object" THEN "raise500"
    ELSE IF r.body.resultats # <<>> THEN "return"
    ELSE "continue"

\* variant: a failed request is passed over like an empty answer
HandleResponse_AbsorbsFailure(r, i, n) ==
    IF r.exc THEN "continue"
    ELSE IF r.status = 204 THEN "continue"
    ELSE IF ~r.json_ct THEN (IF i < n - 1 THEN "continue" ELSE "raise502")
    ELSE IF IsHttpError(r.status) THEN "raise500"
    ELSE IF r.body.kind = "garbage"
         THEN (IF i < n - 1 THEN "continue" ELSE "raise502")
    ELSE IF r.body.kind # "object" THEN "raise500"
    ELSE IF r.body.resultats # <<>> THEN "return"
    ELSE "continue"

\* What the loop body does with what requests.get produced for strategy i
\* (0-based) of n: "continue", "return", "raise500" or "raise502".
HandleResponse(r, i, n) ==
    IF r.exc THEN "raise500"
    ELSE IF r.status = 204 THEN "continue"
    ELSE IF ~r.json_ct THEN (IF i < n - 1 THEN "continue" ELSE "raise502")
    ELSE IF IsHttpError(r.status) THEN "raise500"
    ELSE IF r.body.kind = "garbage"
         THEN (IF i < n - 1 THEN "continue" ELSE "raise502")
    ELSE IF r.body.kind # "object" THEN "raise500"
    ELSE IF r.body.resultats # <<>> THEN "return"
    ELSE "continue"

Pending == [kind |-> "pending", offers |-> <<>>, status_code |-> 0]
Returned(list) == [kind |-> "return", offers |-> list, status_code |-> 0]
Raised(code) == [kind |-> "HTTPException", offers |-> <<>>, status_code |-> code]

----------------------------------------------------------------------------
(* Inputs of search_job_offers explored by the model *)

\* "Senior Backend Engineer Platform"
MetierSenior ==
    <<"S", "e", "n", "i", "o", "r", " ", "B", "a", "c", "k", "e", "n",
    "d", " ", "E", "n", "g", "i", "n", "e", "e", "r", " ", "P", "l", "a",
    "t", "f", "o", "r", "m">>

\* "  Data  Engineer \t"
MetierSpaced ==
    <<" ", " ", "D", "a", "t", "a", " ", " ", "E", "n", "g", "i", "n", "e", "e", "r",
      " ", "\t">>

\* "Dev"
MetierDev ==
    <<"D", "e", "v">>

\* three long words and a fourth one: the first three exceed the budget
MetierLong ==
    Rep("a", LongWord) \o <<" ">> \o Rep("b", LongWord) \o <<" ">>
      \o Rep("c", LongWord) \o <<" ">> \o Rep("d", 2)

\* "   "
MetierBlank == <<" ", " ", " ">>

\* "Go, Kubernetes, gRPC, Postgres"
CompetencesGo ==
    <<"G", "o", ",", " ", "K", "u", "b", "e", "r", "n", "e", "t", "e",
    "s", ",", " ", "g", "R", "P", "C", ",", " ", "P", "o", "s", "t", "g",
    "r", "e", "s">>

\* "Java"
CompetencesJava ==
    <<"J", "a", "v", "a">>

\* "Python,,Docker"
CompetencesGap ==
    <<"P", "y", "t", "h", "o", "n", ",", ",", "D", "o", "c", "k", "e",
    "r">>

\* ", SQL"
CompetencesLead ==
    <<",", " ", "S", "Q", "L">>

\* a long first skill, a short one, and two long remaining skills
CompetencesLong ==
    Rep("x", LongSkill) \o <<",", " ">> \o <<"y">> \o <<",">>
      \o Rep("z", LongSkill) \o <<",", " ">> \o Rep("w", 2)

SampleMetiers ==
    {<<>>, MetierBlank, MetierDev, MetierSpaced, MetierSenior, MetierLong}

SampleCompetences ==
    {<<>>, CompetencesJava, CompetencesLead, CompetencesGap, CompetencesGo,
     CompetencesLong}

\* the dicts extract_keywords_from_cv can hand over: both keys, or one missing
SampleKeywordsData ==
    {[keys |-> {"metier", "competences"}, metier |-> m, competences |-> c] :
        m \in SampleMetiers, c \in SampleCompetences}
    \cup {[keys |-> {"metier"}, metier |-> MetierSenior, competences |-> <<>>],
          [keys |-> {"competences"}, metier |-> <<>>,
           competences |-> CompetencesGo],
          [keys |-> {}, metier |-> <<>>, competences |-> <<>>]}

MaxResultsSet == {1, 10}

\* offers are opaque records; a number stands for one
OffersA == <<7>>
OffersB == <<3, 1, 2>>

Garbage == [kind |-> "garbage", resultats |-> <<>>]
JsonArray == [kind |-> "array", resultats |-> <<>>]
JsonObject(list) == [kind |-> "object", resultats |-> list]

Response(status, json_ct, body) ==
    [exc |-> FALSE, status |-> status, json_ct |-> json_ct, body |-> body]

\* requests.get raised (timeout, connection error)
ConnectionFailure ==
    [exc |-> TRUE, status |-> 0, json_ct |-> FALSE, body |-> Garbage]

\* what the upstream can answer to one GET
UpstreamResponses ==
    {ConnectionFailure,
     Response(204, FALSE, Garbage),
     Response(200, FALSE, Garbage),
     Response(500, FALSE, Garbage),
     Response(200, FALSE, JsonObject(OffersA)),
     Response(200, TRUE, Garbage),
     Response(500, TRUE, Garbage),
     Response(200, TRUE, JsonArray),
     Response(200, TRUE, JsonObject(<<>>)),
     Response(206, TRUE, JsonObject(OffersA)),
     Response(200, TRUE, JsonObject(OffersB))}

----------------------------------------------------------------------------
(* search_job_offers as a state machine *)

\* the store's collection: absent, or present with its id -> payload map
Absent == [exists |-> FALSE, records |-> <<>>]
Present(records) == [exists |-> TRUE, records |-> records]

RebuildIdle == rebuild_counts = <<>>

\* no answer yet
NoResponse == [status |-> 0, detail |-> "", sources |-> <<>>, answer |-> ""]

RetrievalIdle ==
    /\ endpoint = "query"
    /\ top_k = 3
    /\ client_ready = FALSE
    /\ store = [up |-> FALSE, hits |-> <<>>]
    /\ qpc = "idle"
    /\ store_outcome = "none"
    /\ search_results = <<>>
    /\ http_response = NoResponse

\* process_cv_for_job_matching has not returned or raised
CvPending == [kind |-> "pending", status_code |-> 0, analysis |-> "",
              matching_offers |-> <<>>]

CvIdle ==
    /\ cv_text_len = 0
    /\ cv_top_k = 10
    /\ cpc = "idle"
    /\ job_offers = <<>>
    /\ fmt_idx = 0
    /\ matching_offers = <<>>
    /\ context_parts = <<>>
    /\ prompt_context = <<>>
    /\ cv_result = CvPending

\* the chunker has not been called
ChunkIdle ==
    /\ input_text = <<>>
    /\ chunk_size = 1
    /\ chunk_overlap = 0
    /\ kpc = "idle"
    /\ window = 0
    /\ chunks = <<>>

\* the other components are not running
AuxIdle == RebuildIdle /\ RetrievalIdle /\ CvIdle /\ ChunkIdle

IndexerIdle ==
    /\ ipc = "idle"
    /\ attempt = 0
    /\ sleeps = <<>>
    /\ collection = Absent
    /\ calls = <<>>
    /\ points_count = -1
    /\ initial_collection = Absent
    /\ offers = <<>>
    /\ documents = <<>>
    /\ doc_idx = 0
    /\ points = <<>>
    /\ exit_status = -1

\* search_job_offers has not been called
SearchIdle ==
    /\ keywords_data = [keys |-> {}, metier |-> <<>>, competences |-> <<>>]
    /\ max_results = 10
    /\ pc = "idle"
    /\ token_posts = <<>>
    /\ search_strategies = <<>>
    /\ idx = 0
    /\ requests = <<>>
    /\ responses = <<>>
    /\ result = Pending

SearchStart ==
    /\ pc = "token"
    /\ token_posts = <<>>
    /\ search_strategies = <<>>
    /\ idx = 0
    /\ requests = <<>>
    /\ responses = <<>>
    /\ result = Pending

Init ==
    /\ keywords_data \in SampleKeywordsData
    /\ max_results \in MaxResultsSet
    /\ client_id_set \in BOOLEAN
    /\ client_secret_set \in BOOLEAN
    /\ SearchStart
    /\ IndexerIdle
    /\ AuxIdle

\* get_access_token: credentials not configured
TokenNotConfigured ==
    /\ pc = "token"
    /\ ~client_id_set \/ ~client_secret_set
    /\ result' = Raised(500)
    /\ pc' = "done"
    /\ UNCHANGED <<keywords_data, max_results, client_id_set,
                   client_secret_set, token_posts, search_strategies, idx,
                   requests, responses>>
    /\ UNCHANGED indexer_vars
    /\ UNCHANGED aux_vars

\* variant: the failure of the exchange is swallowed and the search goes on
TokenExchangeFails_Swallowed ==
    /\ pc = "token"
    /\ client_id_set /\ client_secret_set
    /\ token_posts' = Append(token_posts, "error")
    /\ pc' = "plan"
    /\ UNCHANGED <<keywords_data, max_results, client_id_set,
                   client_secret_set, search_strategies, idx, requests,
                   responses, result>>
    /\ UNCHANGED indexer_vars
    /\ UNCHANGED aux_vars

\* get_access_token: the POST fails, answers an error status or has no token
TokenExchangeFails ==
    /\ pc = "token"
    /\ client_id_set /\ client_secret_set
    /\ token_posts' = Append(token_posts, "error")
    /\ result' = Raised(500)
    /\ pc' = "done"
    /\ UNCHANGED <<keywords_data, max_results, client_id_set,
                   client_secret_set, search_strategies, idx, requests,
                   responses>>
    /\ UNCHANGED indexer_vars
    /\ UNCHANGED aux_vars

\* get_access_token: the POST returns a token
TokenExchangeOk ==
    /\ pc = "token"
    /\ client_id_set /\ client_secret_set
    /\ token_posts' = Append(token_posts, "ok")
    /\ pc' = "plan"
    /\ UNCHANGED <<keywords_data, max_results, client_id_set,
                   client_secret_set, search_strategies, idx, requests,
                   responses, result>>
    /\ UNCHANGED indexer_vars
    /\ UNCHANGED aux_vars

\* lines 102-132: the list of strategies
BuildStrategies ==
    /\ pc = "plan"
    /\ search_strategies' = PlanStrategies(keywords_data)
    /\ idx' = 0
    /\ pc' = "loop"
    /\ UNCHANGED <<keywords_data, max_results, client_id_set,
                   client_secret_set, token_posts, requests, responses,
                   result>>
    /\ UNCHANGED indexer_vars
    /\ UNCHANGED aux_vars

\* one iteration of the for loop: the GET for strategy idx and its handling
TryStrategy ==
    /\ pc = "loop"
    /\ idx < Len(search_strategies)
    /\ \E r \in UpstreamResponses :
         LET motsCles == search_strategies[idx + 1]
             what == HandleResponse(r, idx, Len(search_strategies))
         IN  /\ requests' = Append(requests, RequestParams(motsCles, max_results))
             /\ responses' = Append(responses, r)
             /\ IF what = "continue"
                THEN /\ idx' = idx + 1
                     /\ UNCHANGED <<pc, result>>
                ELSE /\ pc' = "done"
                     /\ idx' = idx
                     /\ result' = IF what = "return"
                                  THEN Returned(r.body.resultats)
                                  ELSE IF what = "raise502" THEN Raised(502)
                                  ELSE Raised(500)
    /\ UNCHANGED <<keywords_data, max_results, client_id_set,
                   client_secret_set, token_posts, search_strategies>>
    /\ UNCHANGED indexer_vars
    /\ UNCHANGED aux_vars

\* variant: running out of strategies is reported as an error
Exhausted_Raises ==
    /\ pc = "loop"
    /\ idx = Len(search_strategies)
    /\ result' = Raised(404)
    /\ pc' = "done"
    /\ UNCHANGED <<keywords_data, max_results, client_id_set,
                   client_secret_set, token_posts, search_strategies, idx,
                   requests, responses>>
    /\ UNCHANGED indexer_vars
    /\ UNCHANGED aux_vars

\* the loop ran out of strategies: return []
Exhausted ==
    /\ pc = "loop"
    /\ idx = Len(search_strategies)
    /\ result' = Returned(<<>>)
    /\ pc' = "done"
    /\ UNCHANGED <<keywords_data, max_results, client_id_set,
                   client_secret_set, token_posts, search_strategies, idx,
                   requests, responses>>
    /\ UNCHANGED indexer_vars
    /\ UNCHANGED aux_vars

Next ==
    \/ TokenNotConfigured
    \/ TokenExchangeFails
    \/ TokenExchangeOk
    \/ BuildStrategies
    \/ TryStrategy
    \/ Exhausted

Spec == Init /\ [][Next]_vars

----------------------------------------------------------------------------
(* Vocabulary of the properties of search_job_offers *)

\* the list of strategies has been built by this call
PlanBuilt == pc = "loop" \/ (pc = "done" /\ token_posts = <<"ok">>)

\* the profile the plan is derived from (lines 105-107)
Role == Strip(DictGet(keywords_data, "metier", <<>>))
Skills == SkillsList(Strip(DictGet(keywords_data, "competences", <<>>)))

\* the upstream said "no content"
IsSoftEmpty(r) == ~r.exc /\ r.status = 204

\* a response with a success status other than 204
IsOkStatus(r) == ~r.exc /\ r.status >= 200 /\ r.status < 300 /\ r.status # 204

\* an answered request that is not JSON, or whose body does not parse
IsMalformed(r) ==
    IsOkStatus(r) /\ (~r.json_ct \/ r.body.kind = "garbage")

\* a JSON object carrying no offer
IsZeroOffers(r) ==
    IsOkStatus(r) /\ r.json_ct /\ r.body.kind = "object"
      /\ r.body.resultats = <<>>

\* a JSON object carrying at least one offer
IsSuccessWithOffers(r) ==
    IsOkStatus(r) /\ r.json_ct /\ r.body.kind = "object"
      /\ r.body.resultats # <<>>

ZeroOffers == Response(200, TRUE, JsonObject(<<>>))
ThreeOffers == Response(200, TRUE, JsonObject(OffersB))

\* strategies 1-4 answer with zero offers, strategy 5 with three offers
FiveStrategyScenario ==
    <<ZeroOffers, ZeroOffers, ZeroOffers, ZeroOffers, ThreeOffers>>

IsPrefix(a, b) == Len(a) <= Len(b) /\ a = SubSeq(b, 1, Len(a))

----------------------------------------------------------------------------
(* Properties of search_job_offers *)

\* C1: as soon as a strategy's response is a success carrying at least one
\* offer, the call has returned exactly that response's offer list, and that
\* response is the last one: no request for a later strategy is issued.
C1_FirstSuccessStops ==
    \A k \in 1..Len(responses) :
        IsSuccessWithOffers(responses[k]) =>
            /\ k = Len(responses)
            /\ Len(requests) = k
            /\ pc = "done"
            /\ result = Returned(responses[k].body.resultats)

\* a call that returned the offers of its 2nd strategy out of 5
C1_Witness ==
    /\ pc = "done"
    /\ Len(search_strategies) = 5
    /\ Len(requests) = 2
    /\ IsSuccessWithOffers(responses[2])
    /\ result = Returned(OffersB)

\* C2: the requests never outnumber the planned strategies (at most 5); they
\* are issued one at a time in the order of the plan; and with 5 strategies
\* of which 1-4 answer zero offers and the 5th answers 3 offers, the call
\* ends only after 5 requests, returning those 3 offers.
C2_BoundedSequential ==
    /\ Len(search_strategies) <= 5
    /\ Len(requests) <= Len(search_strategies)
    /\ Len(requests) = Len(responses)
    /\ pc = "loop" => Len(requests) = idx
    /\ \A k \in 1..Len(requests) :
         "motsCles" \in DOMAIN requests[k] =>
             requests[k].motsCles = Slice(search_strategies[k], 50)
    /\ (pc = "done" /\ Len(search_strategies) = 5
          /\ IsPrefix(responses, FiveStrategyScenario))
         => /\ responses = FiveStrategyScenario
            /\ Len(requests) = 5
            /\ result = Returned(OffersB)

\* the 5-strategy scenario has run to its end
C2_Witness ==
    /\ pc = "done"
    /\ Len(search_strategies) = 5
    /\ responses = FiveStrategyScenario
    /\ Len(requests) = 5
    /\ result = Returned(OffersB)

\* C3: a malformed response to a strategy that is not the last raises no
\* error and leaves the loop at the next strategy; a malformed first response
\* followed by a second response with offers returns the second's offers; a
\* malformed response to the last strategy ends the call with a 502.
C3_MalformedSkippedUnlessLast ==
    /\ \A k \in 1..Len(responses) :
         IsMalformed(responses[k]) =>
             IF k < Len(search_strategies)
             THEN Len(responses) = k =>
                      /\ pc = "loop"
                      /\ idx = k
                      /\ result = Pending
                      /\ ENABLED TryStrategy
             ELSE pc = "done" /\ result = Raised(502)
    /\ (Len(responses) = 2 /\ IsMalformed(responses[1])
          /\ IsSuccessWithOffers(responses[2]))
         => result = Returned(responses[2].body.resultats)

\* an unparsable first body, then offers from the second strategy
C3_Witness ==
    /\ pc = "done"
    /\ Len(responses) = 2
    /\ responses[1] = Response(200, TRUE, Garbage)
    /\ IsSuccessWithOffers(responses[2])
    /\ result = Returned(OffersA)

\* every planned strategy was attempted, each ending soft-empty, malformed
\* or with zero offers
AllAttemptedWithoutSuccess ==
    /\ pc = "done"
    /\ PlanBuilt
    /\ Len(responses) = Len(search_strategies)
    /\ \A k \in 1..Len(responses) :
         \/ IsSoftEmpty(responses[k])
         \/ IsMalformed(responses[k])
         \/ IsZeroOffers(responses[k])

\* C4 as stated: once every strategy has been attempted and none produced
\* offers, the call returns an empty list without error, whatever the outcome
\* (soft-empty, malformed, zero offers) of each strategy was.
C4_AsStated ==
    AllAttemptedWithoutSuccess => result = Returned(<<>>)

\* C4 amended: the same, provided the response to the last strategy is not
\* malformed (a malformed last response ends the call with a 502).
C4_ExhaustedReturnsEmpty ==
    (AllAttemptedWithoutSuccess
       /\ ~IsMalformed(responses[Len(responses)]))
      => result = Returned(<<>>)

\* five strategies exhausted, a malformed response among the first four
C4_Witness ==
    /\ AllAttemptedWithoutSuccess
    /\ Len(search_strategies) = 5
    /\ IsMalformed(responses[2])
    /\ IsSoftEmpty(responses[1])
    /\ IsZeroOffers(responses[5])
    /\ result = Returned(<<>>)

\* C5: with the client id or secret missing, or a failed token exchange, the
\* call fails before any strategy: no search request is ever issued, no plan
\* is built, and the token exchange is attempted at most once.
C5_TokenFailureIsFatal ==
    /\ Len(token_posts) <= 1
    /\ (~client_id_set \/ ~client_secret_set) =>
         /\ token_posts = <<>>
         /\ requests = <<>>
         /\ pc \in {"token", "done"}
         /\ pc = "done" => result = Raised(500)
    /\ token_posts = <<"error">> =>
         /\ requests = <<>>
         /\ pc = "done"
         /\ result = Raised(500)

\* a call that ended on a failed token exchange
C5_Witness ==
    /\ client_id_set /\ client_secret_set
    /\ token_posts = <<"error">>
    /\ pc = "done"
    /\ result.kind = "HTTPException"
    /\ requests = <<>>

\* the first 3 words of a role, joined by single spaces
RoleWords3(role) == Join(<<" ">>, Slice(SplitWords(role), 3))

\* the skills from index 2 onward, joined by single spaces
RemainingSkills(skills) == Join(<<" ">>, SliceFrom(skills, 2))

\* the ordered subsequence of [S1, S2, S3, S4, S5] for a profile, S2 being
\* given
ExpectedPlan(role, skills, s2) ==
    LET words3 == RoleWords3(role)
        s1 == Slice(words3 \o <<" ">> \o Join(<<" ">>, Slice(skills, 2)), 50)
    IN  (IF role # <<>> /\ skills # <<>> THEN <<s1>> ELSE <<>>)
          \o (IF Len(skills) > 2 THEN <<s2>> ELSE <<>>)
          \o (IF role # <<>> THEN <<words3>> ELSE <<>>)
          \o (IF Len(skills) >= 1 THEN <<skills[1]>> ELSE <<>>)
          \o << <<>> >>

\* C6 as stated: the plan is the ordered subsequence of [S1, S2, S3, S4, S5]
\* with S2 = the skills from index 2 onward (joined, uncut).
C6_AsStated ==
    PlanBuilt =>
        LET skills == Skills
        IN  search_strategies
              = ExpectedPlan(Role, skills, RemainingSkills(skills))

\* C6 amended: the same, with S2 = the skills from index 2 onward joined by
\* spaces and truncated to 50 characters.
C6_PlanIsOrderedSubsequence ==
    PlanBuilt =>
        LET skills == Skills
        IN  search_strategies
              = ExpectedPlan(Role, skills, Slice(RemainingSkills(skills), 50))

\* a full plan whose remaining skills exceed 50 characters
C6_Witness ==
    /\ PlanBuilt
    /\ Len(search_strategies) = 5
    /\ Len(RemainingSkills(Skills)) > 50
    /\ Len(search_strategies[2]) = 50

\* "Senior Backend Go Kubernetes"
StatedStrategy1 ==
    <<"S", "e", "n", "i", "o", "r", " ", "B", "a", "c", "k", "e", "n",
    "d", " ", "G", "o", " ", "K", "u", "b", "e", "r", "n", "e", "t", "e",
    "s">>

\* "Senior Backend Engineer Go Kubernetes"
ComputedStrategy1 ==
    <<"S", "e", "n", "i", "o", "r", " ", "B", "a", "c", "k", "e", "n",
    "d", " ", "E", "n", "g", "i", "n", "e", "e", "r", " ", "G", "o", " ",
    "K", "u", "b", "e", "r", "n", "e", "t", "e", "s">>

\* "gRPC Postgres"
ExampleStrategy2 ==
    <<"g", "R", "P", "C", " ", "P", "o", "s", "t", "g", "r", "e", "s">>

\* "Senior Backend Engineer"
ExampleStrategy3 ==
    <<"S", "e", "n", "i", "o", "r", " ", "B", "a", "c", "k", "e", "n",
    "d", " ", "E", "n", "g", "i", "n", "e", "e", "r">>

\* "Go"
ExampleStrategy4 ==
    <<"G", "o">>

\* the profile of the example: role "Senior Backend Engineer Platform" and
\* skills Go, Kubernetes, gRPC, Postgres
ExampleProfile ==
    /\ keywords_data.keys = {"metier", "competences"}
    /\ keywords_data.metier = MetierSenior
    /\ keywords_data.competences = CompetencesGo

\* C7 as stated: for the example profile the plan is "Senior Backend Go
\* Kubernetes", "gRPC Postgres", "Senior Backend Engineer", "Go", "".
C7_AsStated ==
    (PlanBuilt /\ ExampleProfile) =>
        search_strategies = <<StatedStrategy1, ExampleStrategy2,
                              ExampleStrategy3, ExampleStrategy4, <<>> >>

\* C7 amended: for the example profile the plan is "Senior Backend Engineer
\* Go Kubernetes", "gRPC Postgres", "Senior Backend Engineer", "Go", "".
C7_ExamplePlan ==
    (PlanBuilt /\ ExampleProfile) =>
        search_strategies = <<ComputedStrategy1, ExampleStrategy2,
                              ExampleStrategy3, ExampleStrategy4, <<>> >>

\* the plan of the example profile has been built
C7_Witness ==
    /\ pc = "loop"
    /\ ExampleProfile
    /\ Len(search_strategies) = 5
    /\ Len(search_strategies[1]) = 37

\* C8: for every profile the plan is non-empty and ends with the empty string.
C8_PlanEndsWithNoFilter ==
    PlanBuilt =>
        /\ Len(search_strategies) >= 1
        /\ search_strategies[Len(search_strategies)] = <<>>

\* the plan of a profile with an empty role and no skills
C8_Witness ==
    /\ pc = "loop"
    /\ Role = <<>>
    /\ Skills = <<>>
    /\ search_strategies = << <<>> >>

\* C9 as stated: every string of the planned list has at most 50 characters.
C9_AsStated ==
    \A k \in 1..Len(search_strategies) : Len(search_strategies[k]) <= 50

\* C9 amended: every keyword sent in a request has at most 50 characters, and
\* so have the role-and-skills and remaining-skills strategies of the plan;
\* the role-alone and first-skill strategies are cut to 50 only when sent.
C9_SentKeywordWithinBudget ==
    /\ \A k \in 1..Len(requests) :
         "motsCles" \in DOMAIN requests[k] => Len(requests[k].motsCles) <= 50
    /\ PlanBuilt =>
         LET role == Role
             skills == Skills
         IN  /\ (role # <<>> /\ skills # <<>>)
                   => Len(search_strategies[1]) <= 50
             /\ Len(skills) > 2
                   => Len(search_strategies[IF role # <<>> THEN 2 ELSE 1]) <= 50

\* a planned string longer than 50 characters was sent cut to 50
C9_Witness ==
    \E k \in 1..Len(requests) :
        /\ Len(search_strategies[k]) > 50
        /\ "motsCles" \in DOMAIN requests[k]
        /\ Len(requests[k].motsCles) = 50

----------------------------------------------------------------------------
(* The indexer: main of index_documents.py *)

max_retries == 30
batch_size == 100

\* bound on the number of records of a collection found at startup
MaxInitialPoints == 3

\* records left by an earlier build: ids 0..n-1
OldRecords(n) == [i \in 0..(n - 1) |-> [offer_id |-> 0 - (i + 1)]]

SampleCollections ==
    {Absent} \cup {Present(OldRecords(n)) : n \in 0..MaxInitialPoints}

\* n offers of the upstream, ids 1..n; bad ones make format_job_offer raise
GoodOffers(n) == [i \in 1..n |-> [id |-> i, ok |-> TRUE]]
OffersWithBad(n, bad) == [i \in 1..n |-> [id |-> i, ok |-> i \notin bad]]

SampleOfferLists ==
    {GoodOffers(n) : n \in {0, 1, 2, batch_size, batch_size + 1,
                            2 * batch_size + 1}}
    \cup {OffersWithBad(1, {1}), OffersWithBad(3, {2})}

\* process_job_offers: one document per offer that could be formatted
ProcessJobOffers(list) ==
    LET Formats(o) == o.ok
        kept == SelectSeq(list, Formats)
    IN  [k \in 1..Len(kept) |-> [offer_id |-> kept[k].id]]

\* client.upsert(points=batch): records are written under their ids
Upsert(col, batch) ==
    LET ids == {batch[k].id : k \in 1..Len(batch)}
        payloadOf(i) == (CHOOSE k \in 1..Len(batch) : batch[k].id = i)
    IN  Present([i \in (DOMAIN col.records) \cup ids |->
                    IF i \in ids THEN batch[payloadOf(i)].payload
                    ELSE col.records[i]])

\* collection_info.points_count
PointsCount(col) == Cardinality(DOMAIN col.records)

IndexerInit ==
    /\ ipc = "connect"
    /\ attempt = 0
    /\ sleeps = <<>>
    /\ collection \in SampleCollections
    /\ initial_collection = collection
    /\ calls = <<>>
    /\ points_count = -1
    /\ offers = <<>>
    /\ documents = <<>>
    /\ doc_idx = 0
    /\ points = <<>>
    /\ exit_status = -1
    /\ client_id_set \in BOOLEAN
    /\ client_secret_set \in BOOLEAN
    /\ SearchIdle
    /\ AuxIdle

\* readiness wait: QdrantClient(...) and get_collections() succeed; break
ConnectOk ==
    /\ ipc = "connect"
    /\ ipc' = "check"
    /\ UNCHANGED <<attempt, sleeps, collection, calls, points_count,
                   initial_collection, offers, documents, doc_idx, points,
                   exit_status>>
    /\ UNCHANGED search_vars
    /\ UNCHANGED aux_vars

\* variant: one more attempt is made before giving up
ConnectFails_OneMore ==
    /\ ipc = "connect"
    /\ IF attempt < max_retries
       THEN /\ sleeps' = Append(sleeps, 2)
            /\ attempt' = attempt + 1
            /\ UNCHANGED <<ipc, exit_status>>
       ELSE /\ ipc' = "exited"
            /\ exit_status' = 1
            /\ UNCHANGED <<attempt, sleeps>>
    /\ UNCHANGED <<collection, calls, points_count, initial_collection,
                   offers, documents, doc_idx, points>>
    /\ UNCHANGED search_vars
    /\ UNCHANGED aux_vars

\* readiness wait: the attempt raises; sleep and retry, or give up
ConnectFails ==
    /\ ipc = "connect"
    /\ IF attempt < max_retries - 1
       THEN /\ sleeps' = Append(sleeps, 2)
            /\ attempt' = attempt + 1
            /\ UNCHANGED <<ipc, exit_status>>
       ELSE /\ ipc' = "exited"
            /\ exit_status' = 1
            /\ UNCHANGED <<attempt, sleeps>>
    /\ UNCHANGED <<collection, calls, points_count, initial_collection,
                   offers, documents, doc_idx, points>>
    /\ UNCHANGED search_vars
    /\ UNCHANGED aux_vars

\* variant: the record count is read but the run goes on to the rebuild
CheckReports_AlwaysRebuilds ==
    /\ ipc = "check"
    /\ collection.exists
    /\ points_count' = PointsCount(collection)
    /\ ipc' = "token"
    /\ UNCHANGED <<attempt, sleeps, collection, calls, initial_collection,
                   offers, documents, doc_idx, points, exit_status>>
    /\ UNCHANGED search_vars
    /\ UNCHANGED aux_vars

\* get_collection answers: exit(0) if the collection has records
CheckReports ==
    /\ ipc = "check"
    /\ collection.exists
    /\ points_count' = PointsCount(collection)
    /\ IF points_count' > 0
       THEN ipc' = "exited" /\ exit_status' = 0
       ELSE ipc' = "token" /\ UNCHANGED exit_status
    /\ UNCHANGED <<attempt, sleeps, collection, calls, initial_collection,
                   offers, documents, doc_idx, points>>
    /\ UNCHANGED search_vars
    /\ UNCHANGED aux_vars

\* get_collection raises (collection absent, or the call fails): pass
CheckRaises ==
    /\ ipc = "check"
    /\ ipc' = "token"
    /\ UNCHANGED <<attempt, sleeps, collection, calls, points_count,
                   initial_collection, offers, documents, doc_idx, points,
                   exit_status>>
    /\ UNCHANGED search_vars
    /\ UNCHANGED aux_vars

\* get_access_token of the indexer: exit(1) unless a token is obtained
IndexerToken ==
    /\ ipc = "token"
    /\ calls' = Append(calls, [op |-> "get_access_token", n |-> 0])
    /\ \E ok \in BOOLEAN :
         IF client_id_set /\ client_secret_set /\ ok
         THEN ipc' = "fetch" /\ UNCHANGED exit_status
         ELSE ipc' = "exited" /\ exit_status' = 1
    /\ UNCHANGED <<attempt, sleeps, collection, points_count,
                   initial_collection, offers, documents, doc_idx, points>>
    /\ UNCHANGED search_vars
    /\ UNCHANGED aux_vars

\* fetch_job_offers, then "if not offers: return"
FetchOffers ==
    /\ ipc = "fetch"
    /\ \E list \in SampleOfferLists :
         /\ offers' = list
         /\ calls' = Append(calls, [op |-> "fetch_job_offers", n |-> Len(list)])
         /\ IF list = <<>>
            THEN ipc' = "exited" /\ exit_status' = 0
            ELSE ipc' = "process" /\ UNCHANGED exit_status
    /\ UNCHANGED <<attempt, sleeps, collection, points_count,
                   initial_collection, documents, doc_idx, points>>
    /\ UNCHANGED search_vars
    /\ UNCHANGED aux_vars

\* process_job_offers, then "if not documents: return"
ProcessOffers ==
    /\ ipc = "process"
    /\ documents' = ProcessJobOffers(offers)
    /\ IF documents' = <<>>
       THEN ipc' = "exited" /\ exit_status' = 0
       ELSE ipc' = "delete" /\ UNCHANGED exit_status
    /\ UNCHANGED <<attempt, sleeps, collection, calls, points_count,
                   initial_collection, offers, doc_idx, points>>
    /\ UNCHANGED search_vars
    /\ UNCHANGED aux_vars

\* create_collection, first half: delete_collection, any exception swallowed
DeleteCollection ==
    /\ ipc = "delete"
    /\ calls' = Append(calls, [op |-> "delete_collection",
                               n |-> PointsCount(collection)])
    /\ \E ok \in BOOLEAN :
         collection' = IF ok THEN Absent ELSE collection
    /\ ipc' = "create"
    /\ UNCHANGED <<attempt, sleeps, points_count, initial_collection, offers,
                   documents, doc_idx, points, exit_status>>
    /\ UNCHANGED search_vars
    /\ UNCHANGED aux_vars

\* variant: creating over a collection that is still there keeps its records
CreateCollection_KeepsExisting ==
    /\ ipc = "create"
    /\ calls' = Append(calls, [op |-> "create_collection", n |-> 0])
    /\ \E ok \in BOOLEAN :
         IF ok
         THEN /\ collection' = IF collection.exists THEN collection
                                ELSE Present(<<>>)
              /\ ipc' = "index"
              /\ doc_idx' = 0
              /\ points' = <<>>
              /\ UNCHANGED exit_status
         ELSE /\ ipc' = "exited"
              /\ exit_status' = 1
              /\ UNCHANGED <<collection, doc_idx, points>>
    /\ UNCHANGED <<attempt, sleeps, points_count, initial_collection, offers,
                   documents>>
    /\ UNCHANGED search_vars
    /\ UNCHANGED aux_vars

\* create_collection, second half: client.create_collection; it raises when
\* the collection is still there or the call fails, which ends the run
CreateCollection ==
    /\ ipc = "create"
    /\ calls' = Append(calls, [op |-> "create_collection", n |-> 0])
    /\ \E ok \in BOOLEAN :
         IF ok /\ ~collection.exists
         THEN /\ collection' = Present(<<>>)
              /\ ipc' = "index"
              /\ doc_idx' = 0
              /\ points' = <<>>
              /\ UNCHANGED exit_status
         ELSE /\ ipc' = "exited"
              /\ exit_status' = 1
              /\ UNCHANGED <<collection, doc_idx, points>>
    /\ UNCHANGED <<attempt, sleeps, points_count, initial_collection, offers,
                   documents>>
    /\ UNCHANGED search_vars
    /\ UNCHANGED aux_vars

\* index_documents: one iteration of the loop over the documents
IndexDocument ==
    /\ ipc = "index"
    /\ doc_idx < Len(documents)
    /\ LET point == [id |-> doc_idx, payload |-> documents[doc_idx + 1]]
           batch == Append(points, point)
       IN  IF Len(batch) >= batch_size
           THEN /\ calls' = Append(calls, [op |-> "upsert", n |-> Len(batch)])
                /\ \E ok \in BOOLEAN :
                     IF ok /\ collection.exists
                     THEN /\ collection' = Upsert(collection, batch)
                          /\ points' = <<>>
                          /\ doc_idx' = doc_idx + 1
                          /\ UNCHANGED <<ipc, exit_status>>
                     ELSE /\ ipc' = "exited"
                          /\ exit_status' = 1
                          /\ points' = batch
                          /\ UNCHANGED <<collection, doc_idx>>
           ELSE /\ points' = batch
                /\ doc_idx' = doc_idx + 1
                /\ UNCHANGED <<ipc, exit_status, collection, calls>>
    /\ UNCHANGED <<attempt, sleeps, points_count, initial_collection, offers,
                   documents>>
    /\ UNCHANGED search_vars
    /\ UNCHANGED aux_vars

\* variant: the points left after the loop are not upserted
FlushRemaining_Drops ==
    /\ ipc = "index"
    /\ doc_idx = Len(documents)
    /\ exit_status' = 0
    /\ ipc' = "exited"
    /\ UNCHANGED <<attempt, sleeps, points_count, initial_collection, offers,
                   documents, doc_idx, collection, points, calls>>
    /\ UNCHANGED search_vars
    /\ UNCHANGED aux_vars

\* index_documents: after the loop, upsert the remaining points; main ends
FlushRemaining ==
    /\ ipc = "index"
    /\ doc_idx = Len(documents)
    /\ IF points # <<>>
       THEN /\ calls' = Append(calls, [op |-> "upsert", n |-> Len(points)])
            /\ \E ok \in BOOLEAN :
                 IF ok /\ collection.exists
                 THEN /\ collection' = Upsert(collection, points)
                      /\ points' = <<>>
                      /\ exit_status' = 0
                 ELSE /\ exit_status' = 1
                      /\ UNCHANGED <<collection, points>>
       ELSE /\ exit_status' = 0
            /\ UNCHANGED <<collection, points, calls>>
    /\ ipc' = "exited"
    /\ UNCHANGED <<attempt, sleeps, points_count, initial_collection, offers,
                   documents, doc_idx>>
    /\ UNCHANGED search_vars
    /\ UNCHANGED aux_vars

IndexerNext ==
    \/ ConnectOk
    \/ ConnectFails
    \/ CheckReports
    \/ CheckRaises
    \/ IndexerToken
    \/ FetchOffers
    \/ ProcessOffers
    \/ DeleteCollection
    \/ CreateCollection
    \/ IndexDocument
    \/ FlushRemaining

IndexerSpec == IndexerInit /\ [][IndexerNext]_vars

----------------------------------------------------------------------------
(* Properties of the indexer *)

\* C10: a run that finds the job_offers collection present with N > 0
\* records (get_collection reports N) is a no-op: it ends with status 0
\* without having fetched offers or asked for a token, deleted or created the
\* collection, or upserted a record, and the collection still is what it was,
\* with N records.
C10_ExistingCollectionIsNoOp ==
    points_count > 0 =>
        /\ ipc = "exited"
        /\ exit_status = 0
        /\ calls = <<>>
        /\ offers = <<>> /\ documents = <<>> /\ points = <<>>
        /\ initial_collection.exists
        /\ points_count = PointsCount(initial_collection)
        /\ collection = initial_collection

\* a run over a collection of 2 records, reached after a failed first
\* connection attempt, has ended
C10_Witness ==
    /\ initial_collection = Present(OldRecords(2))
    /\ attempt = 1
    /\ points_count = 2
    /\ ipc = "exited"
    /\ exit_status = 0
    /\ PointsCount(collection) = 2


\* index_documents ran to its end (main returned after it)
IndexCompleted == ipc = "exited" /\ exit_status = 0 /\ documents # <<>>

\* the sizes of the upsert calls of the run, in order
UpsertSizes ==
    LET IsUpsert(c) == c.op = "upsert"
        ups == SelectSeq(calls, IsUpsert)
    IN  [k \in 1..Len(ups) |-> ups[k].n]

RECURSIVE SumSeq(_)
SumSeq(q) == IF q = <<>> THEN 0 ELSE Head(q) + SumSeq(Tail(q))

\* C11: after index_documents completes over n documents the collection
\* holds exactly the records 0..n-1, record i carrying the i-th document; the
\* upsert calls carry n records in all (each document once), none carries
\* more than 100, and nothing is left in the pending batch.
C11_IndexHoldsEveryDocumentOnce ==
    /\ \A k \in 1..Len(calls) :
         calls[k].op = "upsert" => calls[k].n >= 1 /\ calls[k].n <= 100
    /\ IndexCompleted =>
         /\ collection.exists
         /\ DOMAIN collection.records = 0..(Len(documents) - 1)
         /\ \A i \in 0..(Len(documents) - 1) :
              collection.records[i] = documents[i + 1]
         /\ SumSeq(UpsertSizes) = Len(documents)
         /\ points = <<>>

\* 201 documents indexed with upserts of 100, 100 and 1 records
C11_Witness ==
    /\ IndexCompleted
    /\ Len(documents) = 2 * batch_size + 1
    /\ UpsertSizes = <<batch_size, batch_size, 1>>
    /\ PointsCount(collection) = Len(documents)


----------------------------------------------------------------------------
(* The destructive rebuild, create_collection followed by index_documents,
   run twice in succession over the same documents *)

\* number of rebuilds run in succession
Rebuilds == 2

SampleCorpora ==
    {ProcessJobOffers(list) : list \in SampleOfferLists} \ {<<>>}

RebuildInit ==
    /\ ipc = "delete"
    /\ documents \in SampleCorpora
    /\ collection \in SampleCollections
    /\ initial_collection = collection
    /\ attempt = 0
    /\ sleeps = <<>>
    /\ calls = <<>>
    /\ points_count = -1
    /\ offers = <<>>
    /\ doc_idx = 0
    /\ points = <<>>
    /\ exit_status = -1
    /\ client_id_set = FALSE
    /\ client_secret_set = FALSE
    /\ SearchIdle
    /\ RebuildIdle
    /\ RetrievalIdle
    /\ CvIdle
    /\ ChunkIdle

\* a rebuild completed: its record count is noted, and the next rebuild
\* starts over the same documents
RebuildDone ==
    /\ ipc = "exited"
    /\ exit_status = 0
    /\ Len(rebuild_counts) < Rebuilds
    /\ rebuild_counts' = Append(rebuild_counts, PointsCount(collection))
    /\ IF Len(rebuild_counts') < Rebuilds
       THEN /\ ipc' = "delete"
            /\ exit_status' = -1
            /\ doc_idx' = 0
            /\ points' = <<>>
       ELSE UNCHANGED <<ipc, exit_status, doc_idx, points>>
    /\ UNCHANGED <<attempt, sleeps, points_count, initial_collection, offers,
                   documents, collection, calls>>
    /\ UNCHANGED search_vars
    /\ UNCHANGED <<retrieval_vars, cv_vars, chunk_vars>>

RebuildNext ==
    \/ DeleteCollection
    \/ CreateCollection
    \/ IndexDocument
    \/ FlushRemaining
    \/ RebuildDone

RebuildSpec == RebuildInit /\ [][RebuildNext]_vars

\* C12: every completed rebuild leaves as many records as there are
\* documents, whatever the collection held before, so two rebuilds in
\* succession over the same documents yield the same record count.
C12_RebuildCountIsStable ==
    /\ \A k \in 1..Len(rebuild_counts) : rebuild_counts[k] = Len(documents)
    /\ Len(rebuild_counts) = Rebuilds =>
         /\ rebuild_counts[1] = rebuild_counts[2]
         /\ PointsCount(collection) = rebuild_counts[1]

\* two rebuilds of 101 documents over a collection that held 3 records
C12_Witness ==
    /\ Len(rebuild_counts) = Rebuilds
    /\ Len(documents) = batch_size + 1
    /\ PointsCount(initial_collection) = MaxInitialPoints
    /\ rebuild_counts[1] = batch_size + 1
    /\ rebuild_counts[2] = batch_size + 1


----------------------------------------------------------------------------
(* The readiness wait of the indexer *)

\* main runs to completion: a step is taken whenever one is possible
IndexerFairSpec == IndexerSpec /\ WF_vars(IndexerNext)

\* the wait is at its i-th attempt, i = attempt (0-based), having slept once
\* after each failed attempt
WaitWithinBudget ==
    /\ attempt \in 0..(max_retries - 1)
    /\ Len(sleeps) = attempt
    /\ \A k \in 1..Len(sleeps) : sleeps[k] = 2
    /\ ipc = "connect" => exit_status = -1 /\ calls = <<>>

\* how the wait is left: at the first success for the collection check, or
\* fatally after the failure of the last attempt; nothing is retried later
WaitLeaves ==
    /\ ipc = "connect" /\ ipc' # "connect" =>
         /\ attempt' = attempt /\ sleeps' = sleeps /\ calls' = <<>>
         /\ \/ ipc' = "check" /\ exit_status' = -1
            \/ /\ ipc' = "exited" /\ exit_status' = 1
               /\ attempt = max_retries - 1
    /\ ipc # "connect" =>
         /\ ipc' # "connect" /\ attempt' = attempt /\ sleeps' = sleeps
    /\ ipc = "exited" => ipc' = "exited" /\ calls' = calls

\* C13: the readiness wait always terminates: it makes at most 30 attempts,
\* sleeps 2 after each failed attempt but the last, goes on to the collection
\* check at the first success, and ends the run with status 1 and no build
\* step when the 30th attempt fails.
C13_ReadinessWaitTerminates ==
    /\ []WaitWithinBudget
    /\ [][WaitLeaves]_vars
    /\ <>(ipc # "connect")

\* the 30th attempt failed after 29 sleeps: the run ended with status 1
C13_Witness ==
    /\ ipc = "exited"
    /\ exit_status = 1
    /\ attempt = max_retries - 1
    /\ Len(sleeps) = max_retries - 1
    /\ calls = <<>>
    /\ points_count = -1


----------------------------------------------------------------------------
(* Retrieval: search_similar_documents and the /query and /search handlers *)

\* bound on the number of points the store holds for a query
MaxHits == 4

\* the k-th nearest point: its payload text is short, or longer than the 200
\* characters the /query sources keep
StoredHit(k) ==
    [chunk_id |-> k,
     score |-> 100 - k,
     text |-> IF k % 2 = 0 THEN Rep("x", 201) ELSE Rep("x", 3)]

StoredHits(n) == [k \in 1..n |-> StoredHit(k)]

TopKSet == {1, 3}

HTTPError(code, text) ==
    [status |-> code, detail |-> text, sources |-> <<>>, answer |-> ""]

QueryInit ==
    /\ endpoint \in {"query", "search"}
    /\ top_k \in TopKSet
    /\ client_ready \in BOOLEAN
    /\ store \in [up : BOOLEAN, hits : {StoredHits(n) : n \in 0..MaxHits}]
    /\ qpc = "request"
    /\ store_outcome = "none"
    /\ search_results = <<>>
    /\ http_response = NoResponse
    /\ client_id_set = FALSE
    /\ client_secret_set = FALSE
    /\ SearchIdle
    /\ IndexerIdle
    /\ RebuildIdle
    /\ CvIdle
    /\ ChunkIdle

\* search_similar_documents: get_qdrant_client / get_embedding_model raise
\* when not initialised, query_points raises when the store fails; the
\* handler's "except Exception" turns either into a 500
SearchSimilarDocuments ==
    /\ qpc = "request"
    /\ IF client_ready /\ store.up
       THEN /\ search_results' = Slice(store.hits, top_k)
            /\ store_outcome' = "hits"
            /\ qpc' = "retrieved"
            /\ UNCHANGED http_response
       ELSE /\ store_outcome' = IF client_ready THEN "raised" ELSE "none"
            /\ http_response' = HTTPError(500, "Error processing")
            /\ qpc' = "done"
            /\ UNCHANGED search_results
    /\ UNCHANGED <<endpoint, top_k, client_ready, store>>
    /\ UNCHANGED <<search_vars, indexer_vars, rebuild_vars, cv_vars, chunk_vars>>

\* "if not search_results: raise HTTPException(status_code=404, ...)", which
\* "except HTTPException: raise" lets through
NoResults ==
    /\ qpc = "retrieved"
    /\ search_results = <<>>
    /\ http_response' = HTTPError(404, "No relevant documents found")
    /\ qpc' = "done"
    /\ UNCHANGED <<endpoint, top_k, client_ready, store, store_outcome,
                   search_results>>
    /\ UNCHANGED <<search_vars, indexer_vars, rebuild_vars, cv_vars, chunk_vars>>

\* /query: sources with the text cut to 200 characters, then the completion
QueryAnswer ==
    /\ qpc = "retrieved"
    /\ endpoint = "query"
    /\ search_results # <<>>
    /\ LET Source(r) ==
               [chunk_id |-> r.chunk_id, score |-> r.score,
                text |-> IF Len(r.text) > 200
                         THEN Slice(r.text, 200) \o <<".", ".", ".">>
                         ELSE r.text]
       IN  \E completion_ok \in BOOLEAN :
             http_response' =
               IF completion_ok
               THEN [status |-> 200, detail |-> "",
                     sources |-> [k \in 1..Len(search_results) |->
                                     Source(search_results[k])],
                     answer |-> "answer"]
               ELSE HTTPError(500, "Error processing")
    /\ qpc' = "done"
    /\ UNCHANGED <<endpoint, top_k, client_ready, store, store_outcome,
                   search_results>>
    /\ UNCHANGED <<search_vars, indexer_vars, rebuild_vars, cv_vars, chunk_vars>>

\* /search: the hits as sources, with their full text
SearchAnswer ==
    /\ qpc = "retrieved"
    /\ endpoint = "search"
    /\ search_results # <<>>
    /\ http_response' =
         [status |-> 200, detail |-> "",
          sources |-> [k \in 1..Len(search_results) |->
                          [chunk_id |-> search_results[k].chunk_id,
                           score |-> search_results[k].score,
                           text |-> search_results[k].text]],
          answer |-> ""]
    /\ qpc' = "done"
    /\ UNCHANGED <<endpoint, top_k, client_ready, store, store_outcome,
                   search_results>>
    /\ UNCHANGED <<search_vars, indexer_vars, rebuild_vars, cv_vars, chunk_vars>>

QueryNext ==
    \/ SearchSimilarDocuments
    \/ NoResults
    \/ QueryAnswer
    \/ SearchAnswer

QuerySpec == QueryInit /\ [][QueryNext]_vars

\* the store answered the nearest-neighbour query with zero hits
ZeroHits == store_outcome = "hits" /\ search_results = <<>>

\* the store or the connection to it failed
StoreFailure == store_outcome = "raised"

\* C14: a request whose nearest-neighbour query got zero hits ends in a
\* successful answer with an empty result, a request whose store failed ends
\* in an error, and the two are not answered the same way.
C14_ZeroHitsIsSuccessfulEmpty ==
    qpc = "done" =>
        /\ ZeroHits => http_response.status = 200
                       /\ http_response.sources = <<>>
        /\ StoreFailure => http_response.status >= 400
        /\ ZeroHits \/ StoreFailure =>
             http_response.status = (IF ZeroHits THEN 200 ELSE 500)


----------------------------------------------------------------------------
(* CV matching: process_cv_for_job_matching, format_job_offers and
   generate_job_matching_analysis.  A score 1.0 - idx * 0.05 is kept in
   hundredths, 100 - idx * 5. *)

\* largest top_k of the sample /upload-cv requests
MaxTopK == 22

CvTopKSet == {1, 10, MaxTopK}

\* the k-th offer of the upstream's list; descriptions are short, longer than
\* the 300 characters displayed, or longer than the 500 put in the context
UpstreamOffer(k) ==
    [intitule |-> k,
     description |-> Rep("d", IF k % 3 = 1 THEN 2
                              ELSE IF k % 3 = 2 THEN 301 ELSE 501)]

UpstreamOffers(n) == [k \in 1..n |-> UpstreamOffer(k)]

CvHTTPException(code) ==
    [kind |-> "HTTPException", status_code |-> code, analysis |-> "",
     matching_offers |-> <<>>]

CvInit ==
    /\ cv_text_len \in {0, 49, 50}
    /\ cv_top_k \in CvTopKSet
    /\ cpc = "extract"
    /\ job_offers = <<>>
    /\ fmt_idx = 0
    /\ matching_offers = <<>>
    /\ context_parts = <<>>
    /\ prompt_context = <<>>
    /\ cv_result = CvPending
    /\ client_id_set = FALSE
    /\ client_secret_set = FALSE
    /\ SearchIdle
    /\ IndexerIdle
    /\ RebuildIdle
    /\ RetrievalIdle
    /\ ChunkIdle

\* the CV text is checked, then analyze_cv_profile and
\* extract_keywords_from_cv call the model; an exception of theirs ends the
\* request
CheckCvText ==
    /\ cpc = "extract"
    /\ IF cv_text_len < 50
       THEN cpc' = "done" /\ cv_result' = CvHTTPException(400)
       ELSE \E completion_ok \in BOOLEAN :
              IF completion_ok
              THEN cpc' = "search" /\ UNCHANGED cv_result
              ELSE cpc' = "done" /\ cv_result' = CvHTTPException(500)
    /\ UNCHANGED <<cv_text_len, cv_top_k, job_offers, fmt_idx,
                   matching_offers, context_parts, prompt_context>>
    /\ UNCHANGED <<search_vars, indexer_vars, rebuild_vars, retrieval_vars,
                   chunk_vars>>

\* search_job_offers(keywords_data, max_results=top_k) returns the list of
\* the first answer with offers (range 0..top_k-1, so at most top_k offers),
\* returns the empty list, or raises
SearchJobOffers ==
    /\ cpc = "search"
    /\ \/ /\ \E n \in 0..cv_top_k : job_offers' = UpstreamOffers(n)
          /\ cpc' = "searched"
          /\ UNCHANGED cv_result
       \/ /\ \E code \in {500, 502} : cv_result' = CvHTTPException(code)
          /\ cpc' = "done"
          /\ UNCHANGED job_offers
    /\ UNCHANGED <<cv_text_len, cv_top_k, fmt_idx, matching_offers,
                   context_parts, prompt_context>>
    /\ UNCHANGED <<search_vars, indexer_vars, rebuild_vars, retrieval_vars,
                   chunk_vars>>

\* "if not job_offers": the fixed answer without offers
NoJobOffers ==
    /\ cpc = "searched"
    /\ job_offers = <<>>
    /\ cv_result' = [kind |-> "return", status_code |-> 200,
                     analysis |-> "no_offers", matching_offers |-> <<>>]
    /\ cpc' = "done"
    /\ UNCHANGED <<cv_text_len, cv_top_k, job_offers, fmt_idx,
                   matching_offers, context_parts, prompt_context>>
    /\ UNCHANGED <<search_vars, indexer_vars, rebuild_vars, retrieval_vars,
                   chunk_vars>>


\* variant: the score is computed from the 1-based rank
FormattedOffer_RankFromOne(i, offer) ==
    [intitule |-> offer.intitule,
     score |-> 100 - ((i + 1) * 5),
     description |-> IF Len(offer.description) > 300
                     THEN Slice(offer.description, 300) \o <<".", ".", ".">>
                     ELSE offer.description]

\* format_job_offers: the entry of matching_offers for the offer at index i
FormattedOffer(i, offer) ==
    [intitule |-> offer.intitule,
     score |-> 100 - (i * 5),
     description |-> IF Len(offer.description) > 300
                     THEN Slice(offer.description, 300) \o <<".", ".", ".">>
                     ELSE offer.description]

\* format_job_offers: the entry of context_parts for the offer at index i
OfferContext(i, offer) ==
    [label |-> i + 1,
     intitule |-> offer.intitule,
     description |-> Slice(offer.description, 500)]

\* format_job_offers: one iteration of the loop over job_offers
FormatJobOffer ==
    /\ cpc = "searched"
    /\ fmt_idx < Len(job_offers)
    /\ context_parts' =
         Append(context_parts, OfferContext(fmt_idx, job_offers[fmt_idx + 1]))
    /\ matching_offers' =
         Append(matching_offers,
                FormattedOffer(fmt_idx, job_offers[fmt_idx + 1]))
    /\ fmt_idx' = fmt_idx + 1
    /\ UNCHANGED <<cv_text_len, cv_top_k, cpc, job_offers, prompt_context,
                   cv_result>>
    /\ UNCHANGED <<search_vars, indexer_vars, rebuild_vars, retrieval_vars,
                   chunk_vars>>

\* variant: every context entry is joined into the prompt
PromptContext_All(parts) == parts

\* generate_job_matching_analysis: context_parts[:5]
PromptContext(parts) == Slice(parts, 5)

\* generate_job_matching_analysis, then the result of
\* process_cv_for_job_matching; an exception of the completion ends the request
GenerateAnalysis ==
    /\ cpc = "searched"
    /\ job_offers # <<>>
    /\ fmt_idx = Len(job_offers)
    /\ prompt_context' = PromptContext(context_parts)
    /\ \E completion_ok \in BOOLEAN :
         cv_result' =
           IF completion_ok
           THEN [kind |-> "return", status_code |-> 200,
                 analysis |-> "generated",
                 matching_offers |-> matching_offers]
           ELSE CvHTTPException(500)
    /\ cpc' = "done"
    /\ UNCHANGED <<cv_text_len, cv_top_k, job_offers, fmt_idx,
                   matching_offers, context_parts>>
    /\ UNCHANGED <<search_vars, indexer_vars, rebuild_vars, retrieval_vars,
                   chunk_vars>>

CvNext ==
    \/ CheckCvText
    \/ SearchJobOffers
    \/ NoJobOffers
    \/ FormatJobOffer
    \/ GenerateAnalysis

CvSpec == CvInit /\ [][CvNext]_vars

\* process_cv_for_job_matching returned an answer with offers
CvAnswered == cpc = "done" /\ cv_result.kind = "return" /\ job_offers # <<>>

\* C15: format_job_offers gives one formatted offer per input offer, in the
\* upstream order; the offer at 0-based position i has score 1.0 - 0.05 * i
\* (100 - 5 * i hundredths), and the scores strictly decrease along the list.
C15_OneOfferPerInputScoresDecrease ==
    /\ Len(matching_offers) = fmt_idx
    /\ \A k \in 1..Len(matching_offers) :
         /\ matching_offers[k].intitule = job_offers[k].intitule
         /\ matching_offers[k].score = 100 - 5 * (k - 1)
    /\ \A j, k \in 1..Len(matching_offers) :
         j < k => matching_offers[j].score > matching_offers[k].score
    /\ CvAnswered =>
         /\ Len(cv_result.matching_offers) = Len(job_offers)
         /\ cv_result.matching_offers = matching_offers

\* ten offers formatted: the first three have scores 1.0, 0.95 and 0.90
C15_Witness ==
    /\ CvAnswered
    /\ Len(job_offers) = 10
    /\ Len(cv_result.matching_offers) = 10
    /\ cv_result.matching_offers[1].score = 100
    /\ cv_result.matching_offers[2].score = 95
    /\ cv_result.matching_offers[3].score = 90

\* C16: the context joined into the generation prompt is made of the first
\* 5 offers in upstream order (all of them when there are fewer), while
\* matching_offers has every offer.
C16_PromptHasFirstFiveOnly ==
    /\ \A k \in 1..Len(prompt_context) : prompt_context[k].label <= 5
    /\ cpc = "done" /\ fmt_idx > 0 =>
         /\ Len(prompt_context) = Min(5, Len(job_offers))
         /\ \A k \in 1..Len(prompt_context) :
              /\ prompt_context[k].label = k
              /\ prompt_context[k].intitule = job_offers[k].intitule
         /\ Len(matching_offers) = Len(job_offers)
    /\ CvAnswered =>
         \A k \in 1..Len(job_offers) :
             cv_result.matching_offers[k].intitule = job_offers[k].intitule

\* MaxTopK offers returned: 5 in the prompt, all MaxTopK in matching_offers
C16_Witness ==
    /\ CvAnswered
    /\ Len(job_offers) = MaxTopK
    /\ Len(prompt_context) = 5
    /\ prompt_context[5].intitule = job_offers[5].intitule
    /\ Len(cv_result.matching_offers) = MaxTopK


\* C20: every score assigned by format_job_offers is non-negative, within
\* [0, 1] (0..100 hundredths), for every list the search can return, top_k
\* being whatever the /upload-cv request gives.
C20_ScoresNonNegative ==
    \A k \in 1..Len(matching_offers) :
        matching_offers[k].score >= 0 /\ matching_offers[k].score <= 100


----------------------------------------------------------------------------
(* TextChunker: chunk(text, size, overlap), sliding windows with overlap.
   Character positions are 0-based; a chunk covers [start, end). *)

\* bounds on the sample texts and window sizes
MaxTextLen == 5
MaxChunkSize == 3

RECURSIVE TextsOfLen(_)
TextsOfLen(n) ==
    IF n = 0 THEN {<<>>}
    ELSE {Append(t, c) : t \in TextsOfLen(n - 1), c \in {"a", " "}}

SampleTexts == UNION {TextsOfLen(n) : n \in 0..MaxTextLen}

\* variant: the window advances by size + overlap
Stride_PlusOverlap(size, overlap) == size + overlap

\* the window advances by size - overlap
Stride(size, overlap) == size - overlap

\* start of window i
WindowStart(i) == i * Stride(chunk_size, chunk_overlap)

\* end of the window starting at start; the final window may be shorter
WindowEnd(start) == Min(start + chunk_size, Len(input_text))

\* a window with nothing but whitespace in it
IsBlankWindow(start) ==
    \A p \in start..(WindowEnd(start) - 1) : IsSpace(input_text[p + 1])

ChunkInit ==
    /\ input_text \in SampleTexts
    /\ chunk_size \in 1..MaxChunkSize
    /\ chunk_overlap \in 0..(chunk_size - 1)
    /\ kpc = "windows"
    /\ window = 0
    /\ chunks = <<>>
    /\ client_id_set = FALSE
    /\ client_secret_set = FALSE
    /\ SearchIdle
    /\ IndexerIdle
    /\ RebuildIdle
    /\ RetrievalIdle
    /\ CvIdle

\* one window: dropped when empty or whitespace-only, else emitted with the
\* next chunk_index
ChunkWindow ==
    /\ kpc = "windows"
    /\ WindowStart(window) < Len(input_text)
    /\ LET start == WindowStart(window)
       IN  chunks' =
             IF IsBlankWindow(start) THEN chunks
             ELSE Append(chunks,
                         [chunk_index |-> Len(chunks),
                          start |-> start,
                          end |-> WindowEnd(start),
                          text |-> SubSeq(input_text, start + 1,
                                          WindowEnd(start))])
    /\ window' = window + 1
    /\ UNCHANGED <<input_text, chunk_size, chunk_overlap, kpc>>
    /\ UNCHANGED <<search_vars, indexer_vars, rebuild_vars, retrieval_vars,
                   cv_vars>>

\* the window start reached the text length: the sequence ends
ChunkEnd ==
    /\ kpc = "windows"
    /\ WindowStart(window) >= Len(input_text)
    /\ kpc' = "done"
    /\ UNCHANGED <<input_text, chunk_size, chunk_overlap, window, chunks>>
    /\ UNCHANGED <<search_vars, indexer_vars, rebuild_vars, retrieval_vars,
                   cv_vars>>

ChunkNext ==
    \/ ChunkWindow
    \/ ChunkEnd

ChunkSpec == ChunkInit /\ [][ChunkNext]_vars

\* position p of the text lies in the range of an emitted chunk
Covered(p) ==
    \E k \in 1..Len(chunks) : chunks[k].start <= p /\ p < chunks[k].end

\* C17 as stated: the ranges of the emitted chunks cover every character
\* position of the text.
C17_AsStated ==
    kpc = "done" => \A p \in 0..(Len(input_text) - 1) : Covered(p)

\* C17, amended: the ranges of the emitted chunks cover every non-whitespace
\* character position of the text at least once, and every emitted chunk is
\* the text of its range and is not blank.
C17_CoversNonWhitespace ==
    /\ kpc = "done" =>
         \A p \in 0..(Len(input_text) - 1) :
             ~IsSpace(input_text[p + 1]) => Covered(p)
    /\ \A k \in 1..Len(chunks) :
         /\ chunks[k].chunk_index = k - 1
         /\ chunks[k].text =
              SubSeq(input_text, chunks[k].start + 1, chunks[k].end)
         /\ \E p \in chunks[k].start..(chunks[k].end - 1) :
              ~IsSpace(input_text[p + 1])

\* a text chunked with overlap into two chunks or more, with a blank window
\* dropped in between, so that some position is in no chunk
C17_Witness ==
    /\ kpc = "done"
    /\ chunk_overlap > 0
    /\ Len(chunks) >= 2
    /\ Len(chunks) < window
    /\ \E p \in 0..(Len(input_text) - 1) : ~Covered(p)


----------------------------------------------------------------------------
(* Properties of the requests of search_job_offers *)

\* C18: each attempted strategy has exactly one request; the request of a
\* strategy longer than 3 characters carries the strategy cut to 50
\* characters as its keyword parameter, and the request of a strategy of 0 to
\* 3 characters carries the range and sort parameters only.
C18_KeywordIffLongerThanThree ==
    /\ Len(requests) = Len(responses)
    /\ Len(requests) <= Len(search_strategies)
    /\ pc = "loop" => Len(requests) = idx
    /\ pc = "done" =>
         Len(requests) = IF idx < Len(search_strategies) THEN idx + 1 ELSE idx
    /\ \A k \in 1..Len(requests) :
         /\ requests[k].range = <<0, max_results - 1>>
         /\ requests[k].sort = "1"
         /\ ("motsCles" \in DOMAIN requests[k]) <=>
              (Len(search_strategies[k]) > 3)
         /\ IF Len(search_strategies[k]) > 3
            THEN /\ DOMAIN requests[k] = {"range", "sort", "motsCles"}
                 /\ requests[k].motsCles = Slice(search_strategies[k], 50)
                 /\ Len(requests[k].motsCles) <= 50
            ELSE DOMAIN requests[k] = {"range", "sort"}

\* one run sends "Dev" (3 characters) and the final empty strategy without
\* keyword, and a strategy of more than 50 characters cut to 50
C18_Witness ==
    /\ pc = "done"
    /\ search_strategies # <<>>
    /\ Len(requests) = Len(search_strategies)
    /\ search_strategies[Len(search_strategies)] = <<>>
    /\ DOMAIN requests[Len(requests)] = {"range", "sort"}
    /\ \E k \in 1..Len(requests) :
         /\ search_strategies[k] = MetierDev
         /\ "motsCles" \notin DOMAIN requests[k]
    /\ \E k \in 1..Len(requests) :
         /\ Len(search_strategies[k]) > 50
         /\ Len(requests[k].motsCles) = 50

\* C19: a connectivity failure on the request of a strategy ends the search
\* at once with an error: it is the last request sent, nothing is returned,
\* and the outcome is the HTTP 500 exception.
C19_ConnectivityFailureIsFatal ==
    \A k \in 1..Len(responses) :
        responses[k].exc =>
            /\ k = Len(responses)
            /\ Len(requests) = k
            /\ pc = "done"
            /\ idx = k - 1
            /\ result = Raised(500)

\* the third of five strategies fails to connect, after two empty answers
C19_Witness ==
    /\ Len(search_strategies) = 5
    /\ Len(responses) = 3
    /\ ~responses[1].exc /\ ~responses[2].exc
    /\ responses[3] = ConnectionFailure
    /\ Len(requests) = 3
    /\ pc = "done"
    /\ result = Raised(500)


\* C21: a response with an HTTP error status (4xx or 5xx) is never passed
\* over: whatever the strategy and the content type, it is the last request
\* of the search, which ends with an error.
C21_ErrorStatusIsFatal ==
    \A k \in 1..Len(responses) :
        ~responses[k].exc /\ IsHttpError(responses[k].status) =>
            /\ k = Len(responses)
            /\ Len(requests) = k
            /\ pc = "done"
            /\ result.kind = "HTTPException"

----------------------------------------------------------------------------
(* Properties of the collection across the runs of the indexer *)

\* C22: in every run of main, delete_collection is called only when the
\* collection is absent or holds no record, so a collection with records is
\* never deleted.
C22_NeverDeletesRecords ==
    /\ \A k \in 1..Len(calls) :
         calls[k].op = "delete_collection" => calls[k].n = 0
    /\ PointsCount(initial_collection) > 0 =>
         collection.exists /\ PointsCount(collection) > 0

====
